---- MODULE Spec2Model ----
(***************************************************************************)
(* Model of app.py: the self-rescheduling poller fetch_github_events, the   *)
(* module-level list `events`, the stop flag, the threading.Timer chain and *)
(* the Flask endpoints that read the list.                                  *)
(*                                                                          *)
(* Time is counted in seconds since the start of one UTC day.  A raw        *)
(* created_at text "YYYY-MM-DDTHH:MM:SSZ" of that day is the tuple           *)
(* <<HH, MM, SS>>; a text that does not match the format is a tuple of      *)
(* another length.                                                          *)
(***************************************************************************)
EXTENDS Integers, Sequences, FiniteSets, TLC

----------------------------------------------------------------------------
(* Program constants                                                        *)

POLL_INTERVAL == 30

EVENT_RETENTION_MINUTES == 120

EVENTS_OF_INTEREST == {"PullRequestEvent", "WatchEvent", "IssuesEvent"}

RetentionSeconds == EVENT_RETENTION_MINUTES * 60

----------------------------------------------------------------------------
(* Bounds of the model                                                      *)

MaxCycles == 2

MaxStore == 2

MaxTicks == 1

MaxThreads == 2

----------------------------------------------------------------------------
(* The upstream feed                                                        *)

Missing == "<missing>"

Repos == {"o/a"}

FeedKinds == EVENTS_OF_INTEREST \cup {"PushEvent"}

\* The clock when the program starts.
StartTime == RetentionSeconds

\* Instants the feed's events were created at: the start of the run and the
\* second before it.  One retention window later the first is exactly at the
\* cutoff and the second is one second older than it.
FeedTimes == {StartTime - 1, StartTime}

Threads == 1 .. MaxThreads

\* The feed's rendering of an instant as HH:MM:SS.
FormatTime(t) == <<t \div 3600, (t % 3600) \div 60, t % 60>>

\* datetime.strptime(text, "%Y-%m-%dT%H:%M:%SZ"): does the text match?
Parses(text) ==
    /\ Len(text) = 3
    /\ text[1] \in 0 .. 23
    /\ text[2] \in 0 .. 59
    /\ text[3] \in 0 .. 59

\* datetime.strptime(...).replace(tzinfo=utc), as seconds of the day.
ParseTime(text) == text[1] * 3600 + text[2] * 60 + text[3]

\* Raw events of the feed with every field present: pull requests created at
\* either instant, and one event of every kind created at the start.
WellFormedEvents ==
    { [type |-> "PullRequestEvent", repo |-> r, created_at |-> FormatTime(c)] :
        r \in Repos, c \in FeedTimes }
    \cup { [type |-> k, repo |-> r, created_at |-> FormatTime(StartTime)] :
             k \in FeedKinds, r \in Repos }

\* Raw events that lack a field or carry a timestamp of another format.
MalformedEvents ==
    { [type |-> Missing, repo |-> "o/a", created_at |-> FormatTime(StartTime)],
      [type |-> "PullRequestEvent", repo |-> Missing, created_at |-> FormatTime(StartTime)],
      [type |-> "WatchEvent", repo |-> "o/a", created_at |-> <<2, 0>>] }

RawEvents == WellFormedEvents \cup MalformedEvents

RECURSIVE SeqsUpTo(_, _)
SeqsUpTo(S, n) ==
    IF n = 0 THEN {<<>>}
    ELSE LET shorter == SeqsUpTo(S, n - 1)
         IN  shorter \cup { Append(s, x) : s \in { q \in shorter : Len(q) = n - 1 }, x \in S }

\* What requests.get(...).json() can produce:
\*   transport  requests.get raises
\*   decode     response.json() raises
\*   error_obj  a JSON object with a "message" member
\*   other_obj  a non-empty JSON object without "message"
\*   list       a JSON array of raw events
Responses ==
    { [kind |-> k, items |-> <<>>] : k \in {"transport", "decode", "error_obj", "other_obj"} }
    \cup { [kind |-> "list", items |-> s] : s \in SeqsUpTo(RawEvents, MaxStore) }

NoData == [kind |-> "none", items |-> <<>>]

NoCutoff == -1

----------------------------------------------------------------------------
(* State                                                                    *)

VARIABLES
    events,     \* the module-level list
    stop,       \* stop_event
    now,        \* datetime.now(timezone.utc)
    timers,     \* due times of the started threading.Timer objects
    main,       \* what the main thread does: "polling", "serving", "exited"
    pc,         \* position of each execution of fetch_github_events
    data,       \* its local `data`
    idx,        \* position of its `for event in data` loop
    cutoff,     \* its local `cutoff`
    outcome,    \* how it reached the finally clause
    before,     \* the list as it was when it passed the stop check
    started,    \* the clock when it passed the stop check
    cycles,     \* executions that passed the stop check
    resp        \* the last response an endpoint produced

vars == <<events, stop, now, timers, main, pc, data, idx, cutoff, outcome,
          before, started, cycles, resp>>

NoResp == [op |-> "none", val |-> <<>>]

Init ==
    /\ events = <<>>
    /\ stop = FALSE
    /\ now = StartTime
    /\ timers = <<>>
    /\ main = "polling"
    /\ pc = [t \in Threads |-> IF t = 1 THEN "check" ELSE "idle"]
    /\ data = [t \in Threads |-> NoData]
    /\ idx = [t \in Threads |-> 0]
    /\ cutoff = [t \in Threads |-> NoCutoff]
    /\ outcome = [t \in Threads |-> "none"]
    /\ before = [t \in Threads |-> <<>>]
    /\ started = [t \in Threads |-> 0]
    /\ cycles = 0
    /\ resp = NoResp

----------------------------------------------------------------------------
(* fetch_github_events                                                      *)

\* The execution in slot t ends: its locals are gone.
Ended(t) ==
    /\ pc' = [pc EXCEPT ![t] = "idle"]
    /\ data' = [data EXCEPT ![t] = NoData]
    /\ idx' = [idx EXCEPT ![t] = 0]
    /\ cutoff' = [cutoff EXCEPT ![t] = NoCutoff]
    /\ outcome' = [outcome EXCEPT ![t] = "none"]
    /\ before' = [before EXCEPT ![t] = <<>>]
    /\ started' = [started EXCEPT ![t] = 0]

\* The main thread returns from the call of line 244 and goes on to app.run.
MainAfter(t) == IF main = "polling" /\ t = 1 THEN "serving" ELSE main

\* The stop check left out: the execution goes on whatever the flag says.
CheckIgnoringStop(t) ==
    /\ pc[t] = "check"
    /\ pc' = [pc EXCEPT ![t] = "request"]
    /\ before' = [before EXCEPT ![t] = events]
    /\ started' = [started EXCEPT ![t] = now]
    /\ cycles' = cycles + 1
    /\ UNCHANGED <<main, data, idx, cutoff, outcome>>
    /\ UNCHANGED <<events, stop, now, timers, resp>>

\* Lines 50-51: if stop_event.is_set(): return
Check(t) ==
    /\ pc[t] = "check"
    /\ IF stop
       THEN /\ Ended(t)
            /\ main' = MainAfter(t)
            /\ UNCHANGED cycles
       ELSE /\ pc' = [pc EXCEPT ![t] = "request"]
            /\ before' = [before EXCEPT ![t] = events]
            /\ started' = [started EXCEPT ![t] = now]
            /\ cycles' = cycles + 1
            /\ UNCHANGED <<main, data, idx, cutoff, outcome>>
    /\ UNCHANGED <<events, stop, now, timers, resp>>

\* Line 64: isinstance(data, dict) and "message" in data
IsApiError(r) == r.kind = "error_obj"

\* Lines 54-66: the request, the decoding of its body and the test for an
\* error object.  The step is taken when the feed answers or the request fails.
Request(t) ==
    /\ pc[t] = "request"
    /\ \E r \in Responses :
         /\ Len(events) + Len(r.items) <= MaxStore
         /\ IF r.kind \in {"transport", "decode"}
            THEN /\ pc' = [pc EXCEPT ![t] = "except"]
                 /\ outcome' = [outcome EXCEPT ![t] = "Exception"]
                 /\ UNCHANGED <<data, idx>>
            ELSE IF IsApiError(r)
            THEN /\ pc' = [pc EXCEPT ![t] = "api_error"]
                 /\ data' = [data EXCEPT ![t] = r]
                 /\ UNCHANGED <<outcome, idx>>
            ELSE /\ pc' = [pc EXCEPT ![t] = "loop"]
                 /\ data' = [data EXCEPT ![t] = r]
                 /\ idx' = [idx EXCEPT ![t] = 1]
                 /\ UNCHANGED outcome
    /\ UNCHANGED <<events, stop, now, timers, main, cutoff, before, started, cycles, resp>>

\* Lines 65-66: print the message and return; the finally clause follows.
ApiError(t) ==
    /\ pc[t] = "api_error"
    /\ pc' = [pc EXCEPT ![t] = "finally"]
    /\ outcome' = [outcome EXCEPT ![t] = "return"]
    /\ UNCHANGED <<events, stop, now, timers, main, data, idx, cutoff, before, started, cycles, resp>>

\* The filter left out: every event that has a type is kept.
InterestingAny(ty) == ty # Missing

\* Line 69: event["type"] in EVENTS_OF_INTEREST
Interesting(ty) == ty \in EVENTS_OF_INTEREST

\* Lines 70-75: the record built from a raw event.
Record(ev) ==
    [type |-> ev.type, repo |-> ev.repo, created_at |-> ParseTime(ev.created_at)]

\* Lines 69-74: does handling this raw event raise?  event["type"] raises on a
\* missing type; event["repo"]["name"] and strptime are reached only for an
\* event of interest.
Raises(ev) ==
    \/ ev.type = Missing
    \/ /\ Interesting(ev.type)
       /\ (ev.repo = Missing \/ ~Parses(ev.created_at))

\* Lines 68-76: one iteration of `for event in data`, or its end.
Loop(t) ==
    /\ pc[t] = "loop"
    /\ IF data[t].kind = "other_obj"
       THEN \* iterating a dict yields its keys; key["type"] raises TypeError
            /\ pc' = [pc EXCEPT ![t] = "except"]
            /\ outcome' = [outcome EXCEPT ![t] = "Exception"]
            /\ UNCHANGED <<events, idx>>
       ELSE IF idx[t] > Len(data[t].items)
       THEN /\ pc' = [pc EXCEPT ![t] = "prune"]
            /\ UNCHANGED <<events, idx, outcome>>
       ELSE LET ev == data[t].items[idx[t]] IN
            IF Raises(ev)
            THEN /\ pc' = [pc EXCEPT ![t] = "except"]
                 /\ outcome' = [outcome EXCEPT ![t] = "Exception"]
                 /\ UNCHANGED <<events, idx>>
            ELSE /\ events' = IF Interesting(ev.type)
                              THEN Append(events, Record(ev))
                              ELSE events
                 /\ idx' = [idx EXCEPT ![t] = idx[t] + 1]
                 /\ UNCHANGED <<pc, outcome>>
    /\ UNCHANGED <<stop, now, timers, main, data, cutoff, before, started, cycles, resp>>

\* The prune dropping also every record equal to an earlier one.
PrunedWithoutRepeats(evs, c) ==
    LET kept == SelectSeq(evs, LAMBDA e : e.created_at >= c)
        first == { i \in 1 .. Len(kept) : \A j \in 1 .. i - 1 : kept[j] # kept[i] }
    IN  [j \in 1 .. Cardinality(first) |->
            kept[CHOOSE i \in first : Cardinality({ m \in first : m <= i }) = j]]

\* The record created at the very instant of the cutoff pruned too.
PrunedAtCutoffToo(evs, c) == SelectSeq(evs, LAMBDA e : e.created_at > c)

\* Line 80: [e for e in events if e["created_at"] >= cutoff]
Pruned(evs, c) == SelectSeq(evs, LAMBDA e : e.created_at >= c)

\* Lines 79-80: the cutoff and the pruning; the try block ends.
Prune(t) ==
    /\ pc[t] = "prune"
    /\ cutoff' = [cutoff EXCEPT ![t] = now - RetentionSeconds]
    /\ events' = Pruned(events, now - RetentionSeconds)
    /\ pc' = [pc EXCEPT ![t] = "finally"]
    /\ outcome' = [outcome EXCEPT ![t] = "ok"]
    /\ UNCHANGED <<stop, now, timers, main, data, idx, before, started, cycles, resp>>

\* Lines 82-83: except Exception: print
Except(t) ==
    /\ pc[t] = "except"
    /\ pc' = [pc EXCEPT ![t] = "finally"]
    /\ UNCHANGED <<events, stop, now, timers, main, data, idx, cutoff, outcome, before, started, cycles, resp>>

\* The timer started as the last statement of the try block instead of in the
\* finally clause: an early return or an exception skips it.
RescheduledAtEndOfTry(ts, s, how, n) ==
    IF ~s /\ how = "ok" THEN Append(ts, n + POLL_INTERVAL) ELSE ts

\* The timer started after the try statement with no finally clause, the
\* handler re-raising: an exception skips it.
RescheduledUnlessRaised(ts, s, how, n) ==
    IF ~s /\ how # "Exception" THEN Append(ts, n + POLL_INTERVAL) ELSE ts

\* Lines 85-86: the timers after the finally clause of an execution that got
\* there by `how`, with the stop flag s, at instant n.
Rescheduled(ts, s, how, n) == IF ~s THEN Append(ts, n + POLL_INTERVAL) ELSE ts

\* Lines 84-86: the finally clause; the execution ends.
Finally(t) ==
    /\ pc[t] = "finally"
    /\ timers' = Rescheduled(timers, stop, outcome[t], now)
    /\ Ended(t)
    /\ main' = MainAfter(t)
    /\ UNCHANGED <<events, stop, now, cycles, resp>>

----------------------------------------------------------------------------
(* threading.Timer, the clock and the signal handler                        *)

\* The slots no execution occupies.
IdleSlots == { t \in Threads : pc[t] = "idle" }

\* A repeating timer: it stays started after it has fired.
FiredAndKept(ts, k) == ts

\* The timers left once timer k has fired: a threading.Timer fires once.
Fired(ts, k) == SubSeq(ts, 1, k - 1) \o SubSeq(ts, k + 1, Len(ts))

\* Line 86: a started timer comes due and calls fetch_github_events in a
\* thread of its own; the clock is then at or after its due time.
TimerFire ==
    /\ \E k \in 1 .. Len(timers) :
         /\ now' = IF now < timers[k] THEN timers[k] ELSE now
         /\ timers' = Fired(timers, k)
    /\ cycles < MaxCycles \/ stop
    /\ IdleSlots # {}
    /\ LET t == CHOOSE u \in IdleSlots : \A v \in IdleSlots : u <= v
       IN  pc' = [pc EXCEPT ![t] = "check"]
    /\ UNCHANGED <<events, stop, main, data, idx, cutoff, outcome, before, started, cycles, resp>>

\* Time passes: a retention window goes by while every execution there is
\* waits for the feed (the request of line 60 sets no timeout).  A started
\* timer fires when it is due, so the clock does not pass the due time of a
\* timer that is still pending.
Tick ==
    /\ now - StartTime < MaxTicks * RetentionSeconds
    /\ \A t \in Threads : pc[t] \in {"idle", "request"}
    /\ \A k \in 1 .. Len(timers) : now + RetentionSeconds <= timers[k]
    /\ now' = now + RetentionSeconds
    /\ UNCHANGED <<events, stop, timers, main, pc, data, idx, cutoff, outcome, before, started, cycles, resp>>

\* Lines 232-236: SIGINT or SIGTERM.  The handler runs in the main thread:
\* sys.exit raises SystemExit there.  While the main thread is still inside
\* the call of line 244, SystemExit leaves that execution: through the finally
\* clause when it is inside the try statement, without it otherwise (before
\* the try, or inside the finally clause before the timer is started).
handle_shutdown ==
    /\ main # "exited"
    /\ stop' = TRUE
    /\ main' = "exited"
    /\ IF main = "polling"
       THEN IF pc[1] \in {"check", "finally"}
            THEN Ended(1)
            ELSE /\ pc' = [pc EXCEPT ![1] = "finally"]
                 /\ outcome' = [outcome EXCEPT ![1] = "SystemExit"]
                 /\ UNCHANGED <<data, idx, cutoff, before, started>>
       ELSE UNCHANGED <<pc, data, idx, cutoff, outcome, before, started>>
    /\ UNCHANGED <<events, now, timers, cycles, resp>>

----------------------------------------------------------------------------
(* The metrics functions                                                    *)

RECURSIVE SumSeq(_)
\* sum(xs)
SumSeq(xs) == IF xs = <<>> THEN 0 ELSE Head(xs) + SumSeq(Tail(xs))

RECURSIVE Gcd(_, _)
Gcd(a, b) == IF b = 0 THEN a ELSE Gcd(b, a % b)

Abs(a) == IF a < 0 THEN -a ELSE a

\* a / b for b > 0: the quotient as a fraction in lowest terms.
Quotient(a, b) ==
    LET g == Gcd(Abs(a), b) IN [num |-> a \div g, den |-> b \div g]

\* The value None of average_pr_time: no quotient.
NoAverage == [num |-> 0, den |-> 0]

\* list.sort(key=created_at) puts e into an already sorted list: after every
\* element whose key is not greater (the sort is stable).
InsertByTime(sorted, e) ==
    LET n == Cardinality({ i \in 1 .. Len(sorted) : sorted[i].created_at <= e.created_at })
    IN  SubSeq(sorted, 1, n) \o <<e>> \o SubSeq(sorted, n + 1, Len(sorted))

RECURSIVE SortedByTime(_)
\* Line 104: pr_events.sort(key=lambda x: x["created_at"])
SortedByTime(s) ==
    IF s = <<>> THEN <<>>
    ELSE InsertByTime(SortedByTime(SubSeq(s, 1, Len(s) - 1)), s[Len(s)])

\* The records left in the order they were stored in: the sort left out.
PrEventsUnsorted(evs, repo) ==
    SelectSeq(evs, LAMBDA e : e.type = "PullRequestEvent" /\ e.repo = repo)

\* Every pull request record, whatever its repository: the test on the
\* repository left out.
PrEventsAnyRepo(evs, repo) ==
    SortedByTime(SelectSeq(evs, LAMBDA e : e.type = "PullRequestEvent"))

\* Lines 101-104: the pull request records of the repository, sorted.
PrEventsOf(evs, repo) ==
    SortedByTime(SelectSeq(evs, LAMBDA e : e.type = "PullRequestEvent" /\ e.repo = repo))

\* Lines 107-110: the differences of consecutive timestamps, in seconds.
TimeDiffs(pr) == [i \in 1 .. Len(pr) - 1 |-> pr[i + 1].created_at - pr[i].created_at]

\* Lines 91-111: average_pr_time(repo_name) over the list evs.
AveragePrTime(evs, repo) ==
    LET pr == PrEventsOf(evs, repo) IN
    IF Len(pr) < 2 THEN NoAverage
    ELSE Quotient(SumSeq(TimeDiffs(pr)), Len(TimeDiffs(pr)))

\* The window test with > in place of >=.
RecentStrictly(evs, n, offset) ==
    SelectSeq(evs, LAMBDA e : e.created_at > n - offset * 60)

\* Lines 124-126: the records of the last offset minutes at instant n.
Recent(evs, n, offset) ==
    SelectSeq(evs, LAMBDA e : e.created_at >= n - offset * 60)

\* Line 127: Counter(e["type"] for e in recent_events): the types that occur,
\* each with the number of its records.
CounterOfTypes(recent) ==
    [k \in { recent[i].type : i \in 1 .. Len(recent) } |->
        Cardinality({ i \in 1 .. Len(recent) : recent[i].type = k })]

\* Lines 114-127: count_events(offset_minutes) over the list evs at instant n.
CountEvents(evs, n, offset) == CounterOfTypes(Recent(evs, n, offset))

\* Every record counted: the filter on the type left out.
PullRequestsAndOthers(evs) == evs

\* Line 174: the pull request records.
PullRequests(evs) == SelectSeq(evs, LAMBDA e : e.type = "PullRequestEvent")

RECURSIVE FirstOccurrences(_)
\* The keys of Counter(e["repo"] for e in pr_events): a dict keeps its keys in
\* the order they were first inserted in.
FirstOccurrences(rs) ==
    IF rs = <<>> THEN <<>>
    ELSE LET front == FirstOccurrences(SubSeq(rs, 1, Len(rs) - 1))
             last  == rs[Len(rs)]
         IN  IF \E i \in 1 .. Len(front) : front[i] = last THEN front
             ELSE Append(front, last)

\* Line 175: Counter(e["repo"] for e in pr_events), as its items in order.
RepoCounts(pr) ==
    LET keys == FirstOccurrences([i \in 1 .. Len(pr) |-> pr[i].repo])
    IN  [j \in 1 .. Len(keys) |->
            [repo |-> keys[j],
             event_count |-> Cardinality({ i \in 1 .. Len(pr) : pr[i].repo = keys[j] })]]

\* sorted(items, key=count, reverse=True) puts an item into a sorted list:
\* after every item whose count is not smaller (the sort is stable).
InsertByCount(sorted, c) ==
    LET n == Cardinality({ i \in 1 .. Len(sorted) : sorted[i].event_count >= c.event_count })
    IN  SubSeq(sorted, 1, n) \o <<c>> \o SubSeq(sorted, n + 1, Len(sorted))

RECURSIVE SortedByCount(_)
SortedByCount(s) ==
    IF s = <<>> THEN <<>>
    ELSE InsertByCount(SortedByCount(SubSeq(s, 1, Len(s) - 1)), s[Len(s)])

\* Line 178: Counter.most_common(n) is heapq.nlargest(n, items, key=count):
\* the first n of the items sorted by count, largest first, equal counts in
\* the order of the items.
MostCommon(items, n) ==
    LET s == SortedByCount(items)
    IN  SubSeq(s, 1, IF n < Len(s) THEN n ELSE Len(s))

\* Lines 174-179: the list top_repos builds for n over the list evs.
TopRepos(evs, n) == MostCommon(RepoCounts(PullRequests(evs)), n)

----------------------------------------------------------------------------
(* The Flask endpoints: served once the main thread has reached app.run     *)

RECURSIVE Orderings(_)
\* The sequences that list every element of S once.
Orderings(S) ==
    IF S = {} THEN {<<>>}
    ELSE UNION { { <<x>> \o s : s \in Orderings(S \ {x}) } : x \in S }

\* Lines 134-138: list({e["repo"] for e in events}); a set lists in no fixed order.
list_repos ==
    /\ main = "serving"
    /\ \E s \in Orderings({ events[i].repo : i \in 1 .. Len(events) }) :
         resp' = [op |-> "list_repos", val |-> s]
    /\ UNCHANGED <<events, stop, now, timers, main, pc, data, idx, cutoff, outcome, before, started, cycles>>

\* Lines 182-185: events[:5]
debug_events ==
    /\ main = "serving"
    /\ resp' = [op |-> "debug_events",
                val |-> SubSeq(events, 1, IF Len(events) < 5 THEN Len(events) ELSE 5)]
    /\ UNCHANGED <<events, stop, now, timers, main, pc, data, idx, cutoff, outcome, before, started, cycles>>

\* The values of the query parameter repo; "" stands for a request without
\* the parameter and for one with an empty value (`not repo` holds for both).
RepoParams == {"", "o/a", "o/b"}

\* Line 161: the offset, in minutes, of a request that names none.
DefaultOffset == 10

\* Line 172: the n of a request that names none.
DefaultTopN == 5

\* The values of the query parameter offset.
Offsets == {0, DefaultOffset}

\* The values of the query parameter n.
TopNs == {0, 1, DefaultTopN}

\* A missing average answered as an error 404.
PrAverageOrNotFound(evs, p) ==
    IF p = ""
    THEN [status |-> 400, body |-> [error |-> "Please provide repo parameter"]]
    ELSE LET avg == AveragePrTime(evs, p) IN
         IF avg = NoAverage
         THEN [status |-> 404, body |-> [error |-> "Not enough PR events yet"]]
         ELSE [status |-> 200, body |-> [repo |-> p, average_time_seconds |-> avg]]

\* Lines 146-156: the status and the JSON body pr_average answers with.
PrAverageResponse(evs, p) ==
    IF p = ""
    THEN [status |-> 400, body |-> [error |-> "Please provide repo parameter"]]
    ELSE LET avg == AveragePrTime(evs, p) IN
         IF avg = NoAverage
         THEN [status |-> 200,
               body |-> [repo |-> p, average_time_seconds |-> NoAverage,
                         message |-> "Not enough PR events yet"]]
         ELSE [status |-> 200, body |-> [repo |-> p, average_time_seconds |-> avg]]

\* average_pr_time sorting the module-level list itself instead of a copy.
pr_average_sorting_events(p) ==
    /\ main = "serving"
    /\ resp' = [op |-> "pr_average", arg |-> p, val |-> PrAverageResponse(events, p)]
    /\ events' = SortedByTime(events)
    /\ UNCHANGED <<stop, now, timers, main, pc, data, idx, cutoff, outcome, before, started, cycles>>

\* Lines 140-156: GET /metrics/pr_average, with average_pr_time (lines 91-111).
pr_average(p) ==
    /\ main = "serving"
    /\ resp' = [op |-> "pr_average", arg |-> p, val |-> PrAverageResponse(events, p)]
    /\ UNCHANGED <<events, stop, now, timers, main, pc, data, idx, cutoff, outcome, before, started, cycles>>

\* Lines 158-163: GET /metrics/events_count, with count_events (lines 114-127).
events_count(offset) ==
    /\ main = "serving"
    /\ resp' = [op |-> "events_count", arg |-> offset, val |-> CountEvents(events, now, offset)]
    /\ UNCHANGED <<events, stop, now, timers, main, pc, data, idx, cutoff, outcome, before, started, cycles>>

\* Lines 165-180: GET /metrics/top_repos
top_repos(n) ==
    /\ main = "serving"
    /\ resp' = [op |-> "top_repos", arg |-> n, val |-> TopRepos(events, n)]
    /\ UNCHANGED <<events, stop, now, timers, main, pc, data, idx, cutoff, outcome, before, started, cycles>>

\* A request is served.
Read ==
    \/ list_repos
    \/ debug_events
    \/ \E p \in RepoParams : pr_average(p)
    \/ \E offset \in Offsets : events_count(offset)
    \/ \E n \in TopNs : top_repos(n)

----------------------------------------------------------------------------
(* The program                                                              *)

\* One step of an execution of fetch_github_events other than the request.
Step(t) == Check(t) \/ Loop(t) \/ Prune(t) \/ ApiError(t) \/ Except(t) \/ Finally(t)

Next ==
    \/ \E t \in Threads : Check(t)
    \/ \E t \in Threads : Request(t)
    \/ \E t \in Threads : ApiError(t)
    \/ \E t \in Threads : Loop(t)
    \/ \E t \in Threads : Prune(t)
    \/ \E t \in Threads : Except(t)
    \/ \E t \in Threads : Finally(t)
    \/ TimerFire
    \/ Tick
    \/ handle_shutdown
    \/ list_repos
    \/ debug_events
    \/ \E p \in Repos : pr_average(p)
    \/ events_count(DefaultOffset)
    \/ top_repos(DefaultTopN)

Spec == Init /\ [][Next]_vars

\* The interpreter schedules every thread that can run and a started timer
\* fires; nothing makes the feed answer a request.
FairSpec ==
    /\ Spec
    /\ \A t \in Threads : WF_vars(Step(t))
    /\ WF_vars(TimerFire)

----------------------------------------------------------------------------
(* The metrics over lists of every shape: the endpoints alone, on a list    *)
(* that some run of the poller has left                                     *)

MaxMetricStore == 3

\* The instant the requests are served at.
MetricNow == StartTime

\* Ten seconds before the window of ten minutes opens, the instant it opens
\* at, and twenty seconds after that.
MetricTimes == {MetricNow - 610, MetricNow - 600, MetricNow - 580}

MetricRecords ==
    { [type |-> k, repo |-> r, created_at |-> c] :
        k \in {"PullRequestEvent", "WatchEvent"}, r \in {"o/a", "o/b"}, c \in MetricTimes }

PullRequestAt(r, c) == [type |-> "PullRequestEvent", repo |-> r, created_at |-> c]

\* Three pull requests inside the window of ten minutes and two outside it.
WindowExample ==
    << PullRequestAt("o/a", MetricNow - 610), PullRequestAt("o/a", MetricNow - 580),
       PullRequestAt("o/b", MetricNow - 600), PullRequestAt("o/a", MetricNow - 610),
       PullRequestAt("o/b", MetricNow - 580) >>

MetricStores == SeqsUpTo(MetricRecords, MaxMetricStore) \cup {WindowExample}

MetricInit ==
    /\ events \in MetricStores
    /\ stop = FALSE
    /\ now = MetricNow
    /\ timers = <<MetricNow + POLL_INTERVAL>>
    /\ main = "serving"
    /\ pc = [t \in Threads |-> "idle"]
    /\ data = [t \in Threads |-> NoData]
    /\ idx = [t \in Threads |-> 0]
    /\ cutoff = [t \in Threads |-> NoCutoff]
    /\ outcome = [t \in Threads |-> "none"]
    /\ before = [t \in Threads |-> <<>>]
    /\ started = [t \in Threads |-> 0]
    /\ cycles = 1
    /\ resp = NoResp

MetricNext ==
    \/ list_repos
    \/ debug_events
    \/ \E p \in RepoParams : pr_average(p)
    \/ \E offset \in Offsets : events_count(offset)
    \/ \E n \in TopNs : top_repos(n)

MetricSpec == MetricInit /\ [][MetricNext]_vars

----------------------------------------------------------------------------
(* What an execution has done so far                                        *)

\* An execution of fetch_github_events occupies slot t.
InCycle(t) == pc[t] # "idle"

\* The execution in slot t is between its stop check and its end.
Active(t) == pc[t] \in {"request", "loop", "prune", "api_error", "except", "finally"}

RECURSIVE Ingested(_)
\* Lines 68-76: the records the loop appends for these raw events, in order;
\* the loop ends at the first event that raises.
Ingested(items) ==
    IF items = <<>> THEN <<>>
    ELSE IF Raises(Head(items)) THEN <<>>
    ELSE (IF Interesting(Head(items).type) THEN <<Record(Head(items))>> ELSE <<>>)
         \o Ingested(Tail(items))

\* Lines 68-76: some raw event of the batch raises.
BatchRaises(items) == \E i \in 1 .. Len(items) : Raises(items[i])

\* The records the execution in slot t has appended so far.
AppendedBy(t) == Ingested(SubSeq(data[t].items, 1, idx[t] - 1))

\* No execution and no timer is left.
Quiet == (\A t \in Threads : pc[t] = "idle") /\ timers = <<>>

----------------------------------------------------------------------------
(* Claims                                                                   *)

\* C1: a read never sees a torn write.  Whenever an endpoint reads the list
\* while a poll cycle whose batch raises nothing is in its loop or about to
\* prune, the list it reads is the list as it was before the cycle, or that
\* list with the whole batch appended and pruned.
C1_NoTornRead ==
    [][Read =>
         \A t \in Threads :
             (pc[t] \in {"loop", "prune"} /\ data[t].kind = "list"
                 /\ ~BatchRaises(data[t].items))
             => events \in { before[t],
                             Pruned(before[t] \o Ingested(data[t].items),
                                    now - RetentionSeconds) }]_vars

\* C2: in every reachable state every record of the list is at most one
\* retention window old.
C2_RetentionInvariant ==
    \A i \in 1 .. Len(events) : events[i].created_at >= now - RetentionSeconds

\* C2, between cycles only: the same, in the states where the stop flag is
\* not set and no execution is between its stop check and its end.
C2_RetentionBetweenCycles ==
    (~stop /\ \A t \in Threads : ~Active(t)) => C2_RetentionInvariant

\* The cutoff of the cycle in slot t: the one it computed, or, when it never
\* got to compute one, the cutoff of the instant it started at.
CycleCutoff(t) ==
    IF cutoff[t] # NoCutoff THEN cutoff[t] ELSE started[t] - RetentionSeconds

\* C3: when a poll cycle that appended records has finished (by the end of the
\* try block or by an exception), no record older than the cycle's cutoff is
\* left in the list.
C3_RetentionAfterAppend ==
    \A t \in Threads :
        (pc[t] = "finally" /\ outcome[t] \in {"ok", "Exception"} /\ AppendedBy(t) # <<>>)
        => \A i \in 1 .. Len(events) : events[i].created_at >= CycleCutoff(t)

\* C4: a poll cycle that ended through an exception leaves the list as it was
\* when the cycle began.
C4_FailedCycleIngestsNothing ==
    \A t \in Threads :
        (pc[t] = "finally" /\ outcome[t] = "Exception") => events = before[t]

\* C5: a cycle that got an error object appends nothing and removes nothing,
\* and its last step starts the timer of the next cycle unless the stop flag
\* is set.
C5_ApiErrorSkipsAndReschedules ==
    [][\A t \in Threads :
          (pc[t] = "finally" /\ outcome[t] = "return" /\ pc'[t] = "idle")
          => /\ events' = before[t]
             /\ ~stop' => timers' = Append(timers, now + POLL_INTERVAL)
             /\ stop' => timers' = timers]_vars

C5_Witness ==
    \E t \in Threads :
        /\ pc[t] = "finally" /\ outcome[t] = "return"
        /\ ~stop /\ events # <<>> /\ cycles = 2

\* C6: whenever a cycle that passed the stop check ends, however it ends, and
\* the stop flag is not set then, exactly one timer is started, due
\* POLL_INTERVAL seconds later; and while the flag is not set there is always
\* either one execution or one pending timer.
C6_PollingNeverStops ==
    /\ [](~stop => Cardinality({ t \in Threads : InCycle(t) }) + Len(timers) = 1)
    /\ [][\A t \in Threads :
             (Active(t) /\ pc'[t] = "idle" /\ ~stop')
             => timers' = Append(timers, now + POLL_INTERVAL)]_vars

C6_Witness ==
    \E t \in Threads :
        /\ pc[t] = "finally" /\ outcome[t] = "Exception"
        /\ ~stop /\ cycles = 2

\* C7: at most one execution exists, at most one timer is pending, and a
\* pending timer and an execution never exist together.
C7_AtMostOneCycle ==
    /\ Cardinality({ t \in Threads : InCycle(t) }) <= 1
    /\ Len(timers) <= 1
    /\ ~(timers # <<>> /\ \E t \in Threads : InCycle(t))

C7_Witness ==
    /\ cycles = 2
    /\ timers = <<>>
    /\ \E t \in Threads : pc[t] = "loop" /\ idx[t] = 2

\* C8: once the stop flag is set, the chain of cycles ends: eventually no
\* execution and no pending timer is left.
C8_StopEndsTheChain == stop ~> Quiet

\* C8, the steps alone: an execution that finds the flag set at its stop check
\* ends there, with the list, the timers and the count of cycles as they were.
C8_StoppedCycleDoesNothing ==
    [][\A t \in Threads :
          (pc[t] = "check" /\ stop /\ pc'[t] # "check")
          => (pc'[t] = "idle" /\ events' = events /\ timers' = timers
                 /\ cycles' = cycles)]_vars

\* The flag is set and no execution is past its stop check.
StoppedAndDone == stop /\ \A t \in Threads : ~Active(t)

\* C9: once the stop flag is set, no execution gets past its stop check, so
\* only the cycle that was in flight can still change the list; and once that
\* cycle has ended (or none was in flight) the list never changes again.
C9_NoIngestionAfterStop ==
    [][/\ stop => cycles' = cycles
       /\ StoppedAndDone => (events' = events /\ StoppedAndDone')]_vars

C9_Witness ==
    /\ stop /\ Quiet
    /\ main = "exited"
    /\ events # <<>>
    /\ cycles = 2

\* C10: every record of the list has a type of EVENTS_OF_INTEREST.
C10_OnlyInterestingStored ==
    \A i \in 1 .. Len(events) : events[i].type \in EVENTS_OF_INTEREST

C10_Witness ==
    /\ events # <<>>
    /\ \E t \in Threads :
         /\ pc[t] = "loop" /\ idx[t] > 1
         /\ data[t].items[idx[t] - 1].type = "PushEvent"

\* C11: every execution that passed its stop check eventually ends, also
\* when the feed never answers the request of line 60.
C11_CycleFinishes == \A t \in Threads : (Active(t) ~> pc[t] = "idle")

\* C12: no endpoint changes the list: a step that produces a response, of
\* list_repos, debug_events, pr_average (with average_pr_time and its sort),
\* events_count (with count_events) or top_repos, leaves the list as it was,
\* records and order;
\* and every step that changes the list is an append of the loop or the prune
\* of fetch_github_events.
C12_OnlyThePollerWrites ==
    [][/\ resp' # resp => events' = events
       /\ events' # events => \E t \in Threads : Loop(t) \/ Prune(t)]_vars

C12_Witness ==
    /\ resp.op = "pr_average"
    /\ resp.val.status = 200
    /\ Len(events) = 2
    /\ events[1].created_at > events[2].created_at
    /\ resp.val.body.average_time_seconds = [num |-> 1, den |-> 1]

\* The positions of the list that hold a pull request of repository p.
PullRequestPositions(p) ==
    { i \in 1 .. Len(events) : events[i].type = "PullRequestEvent" /\ events[i].repo = p }

\* The j-th smallest of the created_at values at the positions I, counted
\* with repetitions.
NthTime(I, j) ==
    CHOOSE v \in { events[i].created_at : i \in I } :
        /\ Cardinality({ i \in I : events[i].created_at < v }) < j
        /\ j <= Cardinality({ i \in I : events[i].created_at <= v })

\* The differences between consecutive created_at values at the positions I,
\* taken in ascending order.
ConsecutiveDiffs(I) ==
    [j \in 1 .. Cardinality(I) - 1 |-> NthTime(I, j + 1) - NthTime(I, j)]

\* The response to the last request was to GET /metrics/pr_average?repo=p.
AnsweredPrAverage(p) == resp.op = "pr_average" /\ resp.arg = p

\* C13: the answer of average_pr_time for a repository.  With k >= 2 pull
\* requests of the repository in the list it is the arithmetic mean of the
\* k-1 differences between consecutive created_at values in ascending order
\* (equal values give a difference of 0); with k < 2 it is None, in a response
\* of status 200; and it is the answer the function gives for the list without
\* its records of other types and other repositories.
C13_AverageOfConsecutiveDiffs ==
    \A p \in RepoParams \ {""} :
        AnsweredPrAverage(p) =>
            LET I == PullRequestPositions(p)
                k == Cardinality(I)
                avg == resp.val.body.average_time_seconds
            IN  /\ resp.val.status = 200
                /\ k < 2 => avg = NoAverage
                /\ k >= 2 => /\ avg.den > 0
                             /\ avg.num * (k - 1) = avg.den * SumSeq(ConsecutiveDiffs(I))
                /\ avg = AveragePrTime(SelectSeq(events, LAMBDA e :
                                 e.type = "PullRequestEvent" /\ e.repo = p), p)

\* Pull requests at t0 + 30, t0 and t0 + 10 seconds give 15, whatever else of
\* another repository the list holds.
C13_Witness ==
    /\ AnsweredPrAverage("o/a")
    /\ Len(events) = 3
    /\ events[1] = PullRequestAt("o/a", MetricNow - 580)
    /\ events[2] = PullRequestAt("o/a", MetricNow - 610)
    /\ events[3] = PullRequestAt("o/a", MetricNow - 600)
    /\ resp.val.body.average_time_seconds = [num |-> 15, den |-> 1]

\* The number of records of type k created at or after instant c.
CreatedSince(k, c) ==
    Cardinality({ i \in 1 .. Len(events) : events[i].type = k /\ events[i].created_at >= c })

\* C14: the answer of count_events for a window of offset minutes maps every
\* type to the number of records of that type created at or after
\* now - offset minutes, a record created at that very instant included, and
\* has no entry for a type without such a record.
C14_CountsPerTypeInWindow ==
    \A offset \in Offsets :
        (resp.op = "events_count" /\ resp.arg = offset) =>
            LET c == now - offset * 60 IN
            /\ DOMAIN resp.val = { k \in EVENTS_OF_INTEREST : CreatedSince(k, c) > 0 }
            /\ \A k \in DOMAIN resp.val : resp.val[k] = CreatedSince(k, c)

\* Three pull requests inside the window of ten minutes, one of them at the
\* instant the window opens, and two outside: the count is 3.
C14_Witness ==
    /\ events = WindowExample
    /\ resp.op = "events_count"
    /\ resp.arg = DefaultOffset
    /\ DOMAIN resp.val = {"PullRequestEvent"}
    /\ resp.val["PullRequestEvent"] = 3

\* The repositories that have a pull request in the list.
PullRequestRepos ==
    { events[i].repo : i \in { j \in 1 .. Len(events) : events[j].type = "PullRequestEvent" } }

\* The number of pull requests of repository r in the list.
PullRequestCount(r) == Cardinality(PullRequestPositions(r))

\* C15: the answer of top_repos for n >= 0 has min(n, number of repositories
\* with a pull request) entries, for different repositories; the count of
\* every entry is the number of pull requests of its repository, records of
\* other types not counted; the counts do not increase along the answer; and
\* no repository left out has more pull requests than one that is in it.
C15_TopReposByPullRequests ==
    \A n \in TopNs :
        (resp.op = "top_repos" /\ resp.arg = n) =>
            LET top == resp.val
                distinct == Cardinality(PullRequestRepos)
                named == { top[j].repo : j \in 1 .. Len(top) }
            IN  /\ Len(top) = IF n < distinct THEN n ELSE distinct
                /\ Cardinality(named) = Len(top)
                /\ \A j \in 1 .. Len(top) :
                       /\ top[j].repo \in PullRequestRepos
                       /\ top[j].event_count = PullRequestCount(top[j].repo)
                /\ \A i, j \in 1 .. Len(top) :
                       i < j => top[i].event_count >= top[j].event_count
                /\ \A r \in PullRequestRepos \ named : \A j \in 1 .. Len(top) :
                       PullRequestCount(r) <= top[j].event_count

\* One pull request of o/a stored before two of o/b, and n = 1: the answer is
\* o/b with its 2.
C15_Witness ==
    /\ resp.op = "top_repos"
    /\ resp.arg = 1
    /\ Len(events) = 3
    /\ PullRequestCount("o/a") = 1
    /\ events[1].repo = "o/a"
    /\ PullRequestCount("o/b") = 2
    /\ resp.val = <<[repo |-> "o/b", event_count |-> 2]>>

\* The list s with the records at positions i and i + 1 exchanged.
Exchanged(s, i) ==
    [j \in 1 .. Len(s) |-> IF j = i THEN s[i + 1] ELSE IF j = i + 1 THEN s[i] ELSE s[j]]

\* C16: the answer of top_repos depends on the records of the list only, not
\* on the order they were appended in: the list with two neighbouring records
\* exchanged gets the same repositories in the same order, also when
\* repositories have equal counts and n cuts through them.
C16_TopReposIgnoresIngestionOrder ==
    \A n \in TopNs :
        (resp.op = "top_repos" /\ resp.arg = n) =>
            \A i \in 1 .. Len(events) - 1 : TopRepos(Exchanged(events, i), n) = resp.val

\* C17: the outcomes of GET /metrics/pr_average.  A request without a repo, or
\* with an empty one, gets status 400 and a body with an error text and no
\* average; a request for a repository with fewer than 2 pull requests gets
\* status 200, a null average_time_seconds and a message; every other request
\* gets status 200, a numeric average_time_seconds and no message.
C17_PrAverageOutcomes ==
    \A p \in RepoParams :
        AnsweredPrAverage(p) =>
            LET k == Cardinality(PullRequestPositions(p))
                body == resp.val.body
            IN  /\ p = "" => (resp.val.status = 400 /\ DOMAIN body = {"error"})
                /\ (p # "" /\ k < 2) =>
                       /\ resp.val.status = 200
                       /\ DOMAIN body = {"repo", "average_time_seconds", "message"}
                       /\ body.repo = p
                       /\ body.average_time_seconds = NoAverage
                /\ (p # "" /\ k >= 2) =>
                       /\ resp.val.status = 200
                       /\ DOMAIN body = {"repo", "average_time_seconds"}
                       /\ body.repo = p
                       /\ body.average_time_seconds # NoAverage
                       /\ body.average_time_seconds.den > 0

\* A list with two pull requests of o/a and one of o/b, asked for o/b.
C17_Witness ==
    /\ AnsweredPrAverage("o/b")
    /\ PullRequestCount("o/a") = 2
    /\ PullRequestCount("o/b") = 1
    /\ resp.val.status = 200
    /\ resp.val.body.message = "Not enough PR events yet"

\* The execution in slot t has completed its try block.
Succeeded(t) == pc[t] = "finally" /\ outcome[t] = "ok"

\* The list before the cycle of slot t followed by the records of its batch.
Offered(t) == before[t] \o Ingested(data[t].items)

\* The positions of Offered(t) whose record is not older than the cutoff.
InWindow(t) == { i \in 1 .. Len(Offered(t)) : Offered(t)[i].created_at >= cutoff[t] }

\* The j-th smallest position of the set K.
NthPosition(K, j) == CHOOSE i \in K : Cardinality({ m \in K : m <= i }) = j

\* C18: when a poll cycle has completed its try block, the list holds exactly
\* the records that were in it before the cycle and the records of the batch
\* whose type is of interest, less those created before the cycle's cutoff;
\* the records that stay are in the order they had: the old ones first, then
\* those of the batch as the feed listed them.
C18_SuccessfulCycleKeepsInWindow ==
    \A t \in Threads :
        Succeeded(t) =>
            /\ Len(events) = Cardinality(InWindow(t))
            /\ \A j \in 1 .. Len(events) : events[j] = Offered(t)[NthPosition(InWindow(t), j)]

\* A cycle whose request took one retention window and brought two pull
\* requests, the first created a second before the cutoff and the second at
\* the very instant of the cutoff: the list holds the second.
C18_Witness ==
    \E t \in Threads :
        /\ Succeeded(t)
        /\ Len(Offered(t)) = 2
        /\ Offered(t)[1].created_at = cutoff[t] - 1
        /\ Offered(t)[2].created_at = cutoff[t]
        /\ events = <<Offered(t)[2]>>

\* The number of positions of the list s that hold the record r.
Copies(s, r) == Cardinality({ i \in 1 .. Len(s) : s[i] = r })

\* C19: nothing is deduplicated.  When a poll cycle has completed its try
\* block, every record not older than the cutoff is in the list as many times
\* as it was before the cycle plus as many times as the batch brought it, so
\* an event the feed lists in two cycles is held twice.  And the metrics count
\* positions, not different records: count_events and top_repos count every
\* copy, and average_pr_time takes k copies as k pull requests, so that two
\* copies alone give an average of 0.
C19_NoDeduplication ==
    /\ [](\A t \in Threads :
            Succeeded(t) =>
                \A i \in 1 .. Len(Offered(t)) :
                    LET r == Offered(t)[i] IN
                    Copies(events, r) =
                        IF r.created_at >= cutoff[t]
                        THEN Copies(before[t], r) + Copies(Ingested(data[t].items), r)
                        ELSE 0)
    /\ [][(resp' # resp /\ resp'.op = "events_count") =>
             \A i \in 1 .. Len(events) :
                 events[i].created_at >= now - resp'.arg * 60
                 => resp'.val[events[i].type] >= Copies(events, events[i])]_vars
    /\ [][(resp' # resp /\ resp'.op = "top_repos" /\ resp'.arg > 0) =>
             \A i \in 1 .. Len(events) :
                 events[i].type = "PullRequestEvent"
                 => \E j \in 1 .. Len(resp'.val) :
                        /\ resp'.val[j].repo = events[i].repo
                        /\ resp'.val[j].event_count >= Copies(events, events[i])]_vars
    /\ [][(resp' # resp /\ resp'.op = "pr_average" /\ resp'.val.status = 200) =>
             \A i \in 1 .. Len(events) :
                 (events[i].type = "PullRequestEvent" /\ events[i].repo = resp'.arg
                     /\ Copies(events, events[i]) = Len(events) /\ Len(events) >= 2)
                 => resp'.val.body.average_time_seconds = [num |-> 0, den |-> 1]]_vars

\* The feed listed the same pull request in the first cycle and in the second:
\* the list holds it twice and top_repos counts 2.
C19_Witness ==
    /\ cycles = 2
    /\ Len(events) = 2
    /\ events[1] = events[2]
    /\ events[1].type = "PullRequestEvent"
    /\ \E t \in Threads : Succeeded(t) /\ Len(before[t]) = 1
    /\ resp.op = "top_repos"
    /\ resp.val = <<[repo |-> events[1].repo, event_count |-> 2]>>

\* The created_at values of the pull requests of repository p.
PullRequestTimes(p) == { events[i].created_at : i \in PullRequestPositions(p) }

Earliest(p) == CHOOSE v \in PullRequestTimes(p) : \A w \in PullRequestTimes(p) : v <= w

Latest(p) == CHOOSE v \in PullRequestTimes(p) : \A w \in PullRequestTimes(p) : w <= v

\* C20: for a repository with k >= 2 pull requests in the list the answer of
\* average_pr_time is (latest created_at - earliest created_at) / (k - 1); it
\* is not negative; and the list with two neighbouring records exchanged gets
\* the same answer, so the order of ingestion does not matter.
C20_AverageFromExtremes ==
    \A p \in RepoParams \ {""} :
        (AnsweredPrAverage(p) /\ Cardinality(PullRequestPositions(p)) >= 2) =>
            LET k == Cardinality(PullRequestPositions(p))
                avg == resp.val.body.average_time_seconds
            IN  /\ avg.den > 0
                /\ avg.num >= 0
                /\ avg.num * (k - 1) = avg.den * (Latest(p) - Earliest(p))
                /\ \A i \in 1 .. Len(events) - 1 :
                       AveragePrTime(Exchanged(events, i), p) = avg

\* The newest of three pull requests stored first and the oldest second:
\* 30 seconds over 2 intervals.
C20_Witness ==
    /\ AnsweredPrAverage("o/b")
    /\ Len(events) = 3
    /\ events[1] = PullRequestAt("o/b", MetricNow - 580)
    /\ events[2] = PullRequestAt("o/b", MetricNow - 610)
    /\ events[3] = PullRequestAt("o/b", MetricNow - 580)
    /\ resp.val.body.average_time_seconds = [num |-> 15, den |-> 1]

====
